---- MODULE Spec2Model ----
\* SC Controller - USB helper (src/src/daemon/usb_helper.c).
\* A model of the device handle abstraction (open / close), the synchronous
\* transfer engine (claim_interfaces_by, hid_request) and the deferred
\* interrupt-transfer scheduler (read loops, completion callback, per-tick
\* drain), built with USE_HIDAPI so that both backends exist.
EXTENDS Integers, Sequences, FiniteSets, TLC

VARIABLES
    hmem,     \* heap: handle memory, one cell per address (struct USBDevHandle)
    conns,    \* native connections (libusb_device_handle / hid_device)
    held,     \* the non-null handles open() returned that the caller has not closed
    loops,    \* heap: pending interrupt requests (InputInterruptData + buffer + transfer)
    recs,     \* heap: scheduled delivery records and their byte copies
    orphans,  \* byte copies still allocated that no record points to any more
    queue,    \* scheduled_interupts: sequence of record addresses
    pc,       \* position of the mainloop: "idle" or "events" (inside libusb_handle_events)
    cbLog,    \* user callback invocations made by the last step, in order
    last,     \* what the last API call was and what it returned
    hid,      \* one hid_request call: its inputs and its outcome
    clm       \* one claim_interfaces_by call: its inputs and its outcome

vars == <<hmem, conns, held, loops, recs, orphans, queue, pc, cbLog, last, hid, clm>>

-----------------------------------------------------------------------------
\* Bounds of the model.
MaxHandles == 2     \* handle addresses the allocator can hand out
MaxLoops == 2       \* pending interrupt requests that can be allocated at once
MaxRecs == 3        \* delivery records that can be allocated at once
MaxOrphans == 3     \* orphaned byte copies the heap can hold
MaxChunks == 2      \* chunks one blocking-read poll can find waiting
MaxCfg == 2         \* configurations of a device
MaxIfc == 2         \* interfaces of a configuration
MaxAlt == 1         \* alternate settings of an interface

\* Program constants.
BUFFER_MAX == 256
LIBUSB_ENDPOINT_DIR_MASK == 128
LIBUSB_ENDPOINT_IN == 128
UINT16_RANGE == 65536

NULL == 0

\* What a field that was never assigned holds: no value the program chose,
\* whatever the memory happens to contain.
Unset == -2

\* A C bool as the caller receives it.
CBool(b) == IF b THEN 1 ELSE 0

\* (uint16_t)x
U16(x) == x % UINT16_RANGE

\* e & ~LIBUSB_ENDPOINT_DIR_MASK on a uint8_t
ClearDir(e) == e % LIBUSB_ENDPOINT_DIR_MASK

\* (e & ~LIBUSB_ENDPOINT_DIR_MASK) | LIBUSB_ENDPOINT_IN
ForceIn(e) == ClearDir(e) + LIBUSB_ENDPOINT_IN

-----------------------------------------------------------------------------
\* hid_request

\* What open finds in a blocking-read device path: whether it holds the
\* "&mi_" marker, how many hex digits strtol consumed after it and the value
\* strtol returned.
Markers ==
    {[found |-> FALSE, digits |-> 0, value |-> 0],
     [found |-> TRUE, digits |-> 0, value |-> 0],
     [found |-> TRUE, digits |-> 2, value |-> 5]}

\* Sub-interface index recorded by open for the blocking-read backend: -1, or
\* the value parsed after the marker; a marker with no digits after it leaves
\* endptr == hex_str and the index falls back to -1.
hidapi_idx(marker) ==
    IF ~marker.found THEN -1
    ELSE IF marker.digits = 0 THEN -1
    ELSE marker.value

\* The handle hid_request is called with: what open produces for either
\* backend (the event-driven handle has no index), or a handle whose subsystem
\* tag is neither.
HidSubsystems == {"USB", "HIDAPI", "OTHER"}
HidHandle(sys, marker) ==
    [sys |-> sys, idx |-> IF sys = "HIDAPI" THEN hidapi_idx(marker) ELSE Unset]

HidIndexes == {3, 5, 65535}
HidLengths == {-300, -8, 0, 8, 300, 65544}
HidEnvs == [malloc : BOOLEAN, send : BOOLEAN, get : BOOLEAN]

\* A mutation of the cleanup: frees the output buffer whoever owns it.
hid_request_fail_always_free(use_same_buffer, out_buffer) == {out_buffer}

\* sccd_usb_dev_hid_request_fail: the set of buffers the failure exit frees.
hid_request_fail(use_same_buffer, out_buffer) ==
    IF ~use_same_buffer THEN {out_buffer} ELSE {}

\* A mutation of the index check: compares the recorded index as uint16_t.
hid_idx_differs_u16(hndl_idx, idx) == U16(hndl_idx) # idx

\* hndl->idx != idx, an int against a uint16_t promoted to int.
hid_idx_differs(hndl_idx, idx) == hndl_idx # idx

\* The outcome of one call: what is returned ("NULL", "data" for the caller's
\* buffer, "new" for the buffer allocated by the call), the size and fate of
\* the allocated buffer, the buffers freed, and the device I/O issued.
HidOut(ret, allocated, size, freed, io) ==
    [ret |-> ret, allocated |-> allocated, size |-> size, freed |-> freed, io |-> io]

sccd_usb_dev_hid_request(hndl, idx, _length, env) ==
    LET use_same_buffer == _length < 0
        length == IF _length < 0 THEN U16(-_length) ELSE U16(_length)
        out_buffer == IF use_same_buffer THEN "data" ELSE "new"
        allocated == ~use_same_buffer
        fail(io) == HidOut("NULL", allocated, length,
                           hid_request_fail(use_same_buffer, out_buffer), io)
    IN  IF ~use_same_buffer /\ ~env.malloc
        THEN HidOut("NULL", FALSE, 0, {}, <<>>)
        ELSE
        CASE hndl.sys = "USB" ->
               IF ~env.send THEN fail(<<"control_out">>)
               ELSE IF ~env.get THEN fail(<<"control_out", "control_in">>)
               ELSE HidOut(out_buffer, allocated, length, {},
                           <<"control_out", "control_in">>)
          [] hndl.sys = "HIDAPI" ->
               IF length > BUFFER_MAX
               THEN HidOut("NULL", allocated, length, {}, <<>>)
               ELSE IF hid_idx_differs(hndl.idx, idx)
               THEN HidOut("NULL", allocated, length, {}, <<>>)
               ELSE IF ~env.send THEN fail(<<"hid_send_feature_report">>)
               ELSE IF ~env.get
               THEN fail(<<"hid_send_feature_report", "hid_get_feature_report">>)
               ELSE HidOut(out_buffer, allocated, length, {},
                           <<"hid_send_feature_report", "hid_get_feature_report">>)
          [] OTHER -> fail(<<>>)

HidIdle == [h |-> [sys |-> "USB", idx |-> Unset], idx |-> 0, len |-> 0,
            env |-> [malloc |-> TRUE, send |-> TRUE, get |-> TRUE],
            done |-> FALSE, out |-> HidOut("NULL", FALSE, 0, {}, <<>>)]

-----------------------------------------------------------------------------
\* Device handles: open / close

HAddrs == 1..MaxHandles
CAddrs == 1..MaxHandles      \* one native connection per handle at most
LAddrs == 1..MaxLoops
RAddrs == 1..MaxRecs

\* A heap cell that holds no live handle. What a freed or never-written cell
\* reads as is not defined: GarbageSys, GarbageConn.
FreeHandle == [st |-> "free", sys |-> "UNINIT", conn |-> 0, idx |-> Unset]
GarbageSys == {"USB", "HIDAPI", "OTHER"}
GarbageConn == 0..MaxHandles

\* bus/address pairs a syspath can resolve to, and that can be attached
Addresses == {<<1, 2>>, <<1, 3>>}
NoAddress == <<>>

\* What the last step was: the call, its return value, the handle it worked
\* on, the path it took, the memory faults it made.
Last(op, ret, h, why, fault) ==
    [op |-> op, ret |-> ret, h |-> h, why |-> why, fault |-> fault]

FreeHAddrs == {a \in HAddrs : hmem[a].st = "free"}
ClosedConns == {c \in CAddrs : conns[c] = "closed"}
MallocChoices(avail) == IF avail = {} THEN {FALSE} ELSE BOOLEAN

\* What sccd_usb_dev_open_by_syspath returns after libusb_open failed and
\* free(hndl) ran: hndl itself, through the common exit.
open_failed_return(a) == a

\* sccd_usb_dev_open_by_syspath, event-driven backend (the part after the
\* "/hidapi/" prefix test): addr is what get_usb_address resolved (NoAddress
\* when it returned false), list the attached devices.
OpenUsb ==
    \E addr \in Addresses \cup {NoAddress}, list \in SUBSET Addresses :
    \E mallocOK \in MallocChoices(FreeHAddrs), openOK \in MallocChoices(ClosedConns) :
        IF addr = NoAddress
        THEN /\ last' = Last("open", NULL, NULL, "address", {})
             /\ UNCHANGED <<hmem, conns, held>>
        ELSE IF addr \notin list
        THEN /\ last' = Last("open", NULL, NULL, "notfound", {})
             /\ UNCHANGED <<hmem, conns, held>>
        ELSE IF ~mallocOK
        THEN /\ last' = Last("open", NULL, NULL, "oom", {})
             /\ UNCHANGED <<hmem, conns, held>>
        ELSE \E a \in FreeHAddrs :
             IF ~openOK
             THEN \* hndl = malloc(); free(hndl); goto end; return hndl
                  LET ret == open_failed_return(a) IN
                  /\ last' = Last("open", ret, a, "libusb_open", {})
                  /\ held' = IF ret = NULL THEN held ELSE held \cup {ret}
                  /\ UNCHANGED <<hmem, conns>>
             ELSE LET c == CHOOSE c \in ClosedConns : \A d \in ClosedConns : c <= d IN
                  /\ hmem' = [hmem EXCEPT ![a] =
                                [st |-> "live", sys |-> "USB", conn |-> c, idx |-> Unset]]
                  /\ conns' = [conns EXCEPT ![c] = "open"]
                  /\ held' = held \cup {a}
                  /\ last' = Last("open", a, a, "ok", {})

\* sccd_usb_dev_open_by_syspath, blocking-read backend ("/hidapi/" prefix).
OpenHidapi ==
    \E marker \in Markers :
    \E mallocOK \in MallocChoices(FreeHAddrs), openOK \in MallocChoices(ClosedConns) :
        IF ~mallocOK
        THEN /\ last' = Last("open", NULL, NULL, "oom", {})
             /\ UNCHANGED <<hmem, conns, held>>
        ELSE \E a \in FreeHAddrs :
             IF ~openOK
             THEN \* free(hndl); return NULL
                  /\ last' = Last("open", NULL, a, "hid_open_path", {})
                  /\ UNCHANGED <<hmem, conns, held>>
             ELSE LET c == CHOOSE c \in ClosedConns : \A d \in ClosedConns : c <= d IN
                  /\ hmem' = [hmem EXCEPT ![a] =
                                [st |-> "live", sys |-> "HIDAPI", conn |-> c,
                                 idx |-> hidapi_idx(marker)]]
                  /\ conns' = [conns EXCEPT ![c] = "open"]
                  /\ held' = held \cup {a}
                  /\ last' = Last("open", a, a, "ok", {})

Open ==
    /\ pc = "idle"
    /\ (OpenUsb \/ OpenHidapi)
    /\ cbLog' = <<>>
    /\ UNCHANGED <<loops, recs, orphans, queue, pc, hid, clm>>

\* hndl->sys and the connection pointer as close reads them: the fields of a
\* live handle, anything at all from memory that was freed.
ReadSys(h) == IF hmem[h].st = "live" THEN {hmem[h].sys} ELSE GarbageSys
ReadConn(h) == IF hmem[h].st = "live" THEN {hmem[h].conn} ELSE GarbageConn

\* sccd_usb_dev_close on a handle the caller holds.
Close ==
    /\ pc = "idle"
    /\ \E h \in held : \E sys \in ReadSys(h), c \in ReadConn(h) :
        LET released == IF sys \in {"USB", "HIDAPI"} THEN c ELSE 0
            fault == (IF hmem[h].st = "live" THEN {} ELSE {"use_after_free", "double_free"})
                     \cup (IF released # 0 /\ conns[released] = "closed"
                           THEN {"double_release"} ELSE {})
                     \cup (IF released # 0 /\ hmem[h].st # "live"
                           THEN {"release_unowned"} ELSE {})
        IN  /\ conns' = IF released = 0 THEN conns
                        ELSE [conns EXCEPT ![released] = "closed"]
            /\ hmem' = [hmem EXCEPT ![h] = FreeHandle]
            /\ held' = held \ {h}
            /\ last' = Last("close", released, h, sys, fault)
    /\ cbLog' = <<>>
    /\ UNCHANGED <<loops, recs, orphans, queue, pc, hid, clm>>

-----------------------------------------------------------------------------
\* Interrupt scheduler: starting a read loop

\* What callers pass to start a read loop: an endpoint id (without and with
\* the direction bit) and the userdata that goes with it; a requested length.
StartArgs == {[endpoint |-> 2, ud |-> "ud2"], [endpoint |-> 131, ud |-> "ud131"]}
Lengths == {64}

\* A request slot holding nothing: no InputInterruptData, no buffer, no
\* transfer, no one-shot callback scheduled. endpoint and length are the
\* fields of InputInterruptData, hndl/ud its hndl and userdata; tep and tlen
\* are the endpoint and length of the libusb transfer.
FreeLoop == [idata |-> "free", buffer |-> "free", xfer |-> "none", sched |-> 0,
             hndl |-> NULL, endpoint |-> Unset, length |-> Unset, ud |-> "unset",
             tep |-> 0, tlen |-> 0]

FreeLAddrs == {l \in LAddrs : loops[l] = FreeLoop}
FirstFreeLoop == CHOOSE l \in FreeLAddrs : \A k \in FreeLAddrs : l <= k

\* What is left of a slot: the slot itself, or nothing once it is all
\* released (the fields of released memory are forgotten).
Settle(loop) ==
    IF loop.idata = "free" /\ loop.buffer = "free" /\ loop.xfer = "none" /\ loop.sched = 0
    THEN FreeLoop ELSE loop

\* A mutation of the failure exit: the buffer is not released.
read_loop_fail_keeps_buffer(loop) ==
    Settle([loop EXCEPT !.idata = "free", !.xfer = "none"])

\* sccd_usb_dev_interupt_read_loop_fail:
\* free(idata); free(buffer); if (t != NULL) libusb_free_transfer(t).
read_loop_fail(loop) ==
    Settle([loop EXCEPT !.idata = "free", !.buffer = "free", !.xfer = "none"])

\* The failure branch of the blocking-read variant: free(idata); free(buffer).
hidapi_read_loop_fail(loop) ==
    Settle([loop EXCEPT !.idata = "free", !.buffer = "free"])

\* The outcomes of the allocations and of the submission of one call; a flag
\* the call does not get to read is fixed at TRUE. With no slot left every
\* allocation fails.
StartEnvs(sys, avail) ==
    {e \in [buffer : BOOLEAN, idata : BOOLEAN, xfer : BOOLEAN, submit : BOOLEAN] :
        /\ (sys \notin {"USB", "HIDAPI"}) => (e.buffer /\ e.idata /\ e.xfer /\ e.submit)
        /\ (sys = "HIDAPI") => (e.xfer /\ e.submit)
        /\ (sys = "HIDAPI" /\ ~avail) => (~e.buffer /\ ~e.idata)
        /\ (sys = "USB" /\ ~avail) => (~e.buffer /\ ~e.idata /\ ~e.xfer)
        /\ (sys = "USB" /\ ~(e.buffer /\ e.idata /\ e.xfer)) => e.submit}

\* A mutation of the scheduling call: no one-shot callback is scheduled.
schedule_forgotten(idata) == idata

\* d->schedule(1, sccd_hidapi_dev_interupt_cb, idata): one more one-shot
\* callback is pending for the request.
schedule(idata) == [idata EXCEPT !.sched = @ + 1]

\* sccd_hidapi_dev_interupt_read_loop: the slot after the call, and its result.
sccd_hidapi_dev_interupt_read_loop(hndl, endpoint, length, ud, env) ==
    LET a == [FreeLoop EXCEPT !.idata = IF env.idata THEN "live" ELSE "free",
                              !.buffer = IF env.buffer THEN "live" ELSE "free"]
    IN  IF ~env.idata \/ ~env.buffer
        THEN [loop |-> hidapi_read_loop_fail(a), ret |-> FALSE, why |-> "oom"]
        ELSE [loop |-> schedule([a EXCEPT !.hndl = hndl, !.ud = ud]),
              ret |-> TRUE, why |-> "ok"]

\* sccd_usb_dev_interupt_read_loop for the subsystem tag sys read from the handle.
sccd_usb_dev_interupt_read_loop(sys, hndl, endpoint, length, ud, env) ==
    IF sys = "HIDAPI"
    THEN sccd_hidapi_dev_interupt_read_loop(hndl, endpoint, length, ud, env)
    ELSE IF sys # "USB"
    THEN [loop |-> FreeLoop, ret |-> FALSE, why |-> "subsystem"]
    ELSE
    LET a == [FreeLoop EXCEPT !.buffer = IF env.buffer THEN "live" ELSE "free",
                              !.idata = IF env.idata THEN "live" ELSE "free",
                              !.xfer = IF env.xfer THEN "alloc" ELSE "none"]
        b == [a EXCEPT !.hndl = hndl, !.ud = ud,
                       !.tep = ForceIn(endpoint), !.tlen = length]
    IN  IF ~env.buffer \/ ~env.xfer \/ ~env.idata
        THEN [loop |-> read_loop_fail(a), ret |-> FALSE, why |-> "oom"]
        ELSE IF ~env.submit
        THEN [loop |-> read_loop_fail(b), ret |-> FALSE, why |-> "submit"]
        ELSE [loop |-> [b EXCEPT !.xfer = "inflight"], ret |-> TRUE, why |-> "ok"]

\* The caller starts a read loop on a handle it holds.
StartReadLoop ==
    /\ pc = "idle"
    /\ \E h \in held, args \in StartArgs, length \in Lengths :
       \E sys \in ReadSys(h) :
       \E env \in StartEnvs(sys, FreeLAddrs # {}) :
        LET r == sccd_usb_dev_interupt_read_loop(sys, h, args.endpoint, length,
                                                 args.ud, env)
        IN  /\ loops' = IF FreeLAddrs = {} THEN loops
                        ELSE [loops EXCEPT ![FirstFreeLoop] = r.loop]
            /\ last' = Last("start", CBool(r.ret), h, r.why,
                            IF hmem[h].st = "live" THEN {} ELSE {"use_after_free"})
    /\ cbLog' = <<>>
    /\ UNCHANGED <<hmem, conns, held, recs, orphans, queue, pc, hid, clm>>

-----------------------------------------------------------------------------
\* Interrupt scheduler: completion callback, drain, blocking-read poll

\* A record cell holding nothing. st is the InputInterruptData allocated for
\* the record, copy the byte copy allocated with it; buffer is the record's
\* buffer field: "copy" when it points to the byte copy, "NULL" otherwise.
FreeRec == [st |-> "free", copy |-> "free", hndl |-> NULL, endpoint |-> Unset,
            buffer |-> "NULL", ud |-> "unset"]

FreeRAddrs(rs) == {r \in RAddrs : rs[r].st = "free" /\ rs[r].copy = "free"}
FirstFreeRec(rs) == CHOOSE r \in FreeRAddrs(rs) : \A k \in FreeRAddrs(rs) : r <= k

\* Byte copies whose record is gone: nothing points to them any more. They
\* leave the cells and are counted.
Orphaned(rs) == {r \in RAddrs : rs[r].st = "free" /\ rs[r].copy = "live"}
Collect(rs) == [r \in RAddrs |-> IF rs[r].st = "free" THEN FreeRec ELSE rs[r]]

\* One invocation of the user callback: where it was made from ("drain",
\* "completion", "hidapi"), the record it delivers (NULL when none), and the
\* arguments handle, endpoint, buffer and userdata.
CbCall(ctx, rec, hndl, endpoint, buffer, ud) ==
    [ctx |-> ctx, rec |-> rec, hndl |-> hndl, endpoint |-> endpoint,
     buffer |-> buffer, ud |-> ud]

\* free(item) on a record; free(p) on a byte copy. free(NULL) does nothing.
FreeRecord(rs, r) ==
    IF r = NULL THEN rs ELSE [rs EXCEPT ![r] = [FreeRec EXCEPT !.copy = rs[r].copy]]
FreeCopy(rs, r) ==
    IF r = NULL THEN rs ELSE [rs EXCEPT ![r].copy = "free"]

\* A mutation of the filter callback: the comparison is inverted.
remove_si_by_device_inverted(rs, item, hndl) == rs[item].hndl = hndl

\* remove_si_by_device: whether the item is kept.
remove_si_by_device(rs, item, hndl) == rs[item].hndl # hndl

\* list_filter(scheduled_interupts, &remove_si_by_device, hndl): the items the
\* callback keeps, in their order; the callback frees the items it drops.
RECURSIVE list_filter(_, _, _)
list_filter(q, rs, hndl) ==
    IF q = <<>> THEN [queue |-> <<>>, recs |-> rs]
    ELSE LET item == Head(q)
             keep == remove_si_by_device(rs, item, hndl)
             rest == list_filter(Tail(q), IF keep THEN rs ELSE FreeRecord(rs, item), hndl)
         IN  [queue |-> IF keep THEN <<item>> \o rest.queue ELSE rest.queue,
              recs |-> rest.recs]

\* A mutation of the error exit: nothing is released, the request stays as it was.
input_interrupt_cb_error_keeps_all(idata) == idata

\* input_interrupt_cb_error: free(idata->buffer); free(idata); libusb_free_transfer(t).
input_interrupt_cb_error(idata) ==
    Settle([idata EXCEPT !.buffer = "free", !.idata = "free", !.xfer = "none"])

\* The callback input_interrupt_cb_oom makes: idata->cb(d, hndl, t->endpoint, NULL, userdata).
oom_callback(idata) ==
    <<CbCall("completion", NULL, idata.hndl, idata.tep, "NULL", idata.ud)>>

\* input_interrupt_cb_oom, entered with the local pointers scheduled and buffer_copy.
input_interrupt_cb_oom(idata, rs, q, scheduled, buffer_copy) ==
    LET rs1 == FreeCopy(FreeRecord(rs, scheduled), buffer_copy)
        f == list_filter(q, rs1, idata.hndl)
    IN  [recs |-> f.recs, queue |-> f.queue, cbs |-> oom_callback(idata),
         loop |-> input_interrupt_cb_error(idata), why |-> "oom"]

\* A mutation of the completion path: the user callback is made at once, from
\* inside the completion callback (the call the source keeps commented out).
completed_callback_now(idata, r) ==
    <<CbCall("completion", r, idata.hndl, ClearDir(idata.tep), "copy", idata.ud)>>

\* The callbacks input_interrupt_cb makes once the copy is queued: none.
completed_callback(idata, r) == <<>>

\* A mutation of the append: the item is added twice.
list_add_twice(q, item) == Append(Append(q, item), item)

\* list_add(scheduled_interupts, scheduled)
list_add(q, item) == Append(q, item)

\* The outcomes of the allocations and of the resubmission of one completion;
\* a flag the callback does not get to read is fixed at TRUE. With no cell
\* left an allocation fails.
CompleteEnvs(rs) ==
    {e \in [list : BOOLEAN, sched : BOOLEAN, copy : BOOLEAN, submit : BOOLEAN,
            sched2 : BOOLEAN] :
        /\ ~e.list => (e.sched /\ e.copy)
        /\ ~(e.list /\ e.sched /\ e.copy) => e.submit
        /\ e.submit => e.sched2
        /\ (e.list /\ FreeRAddrs(rs) = {}) => (~e.sched /\ ~e.copy)
        /\ (~e.submit /\ Cardinality(FreeRAddrs(rs)) <= 1) => ~e.sched2}

\* input_interrupt_cb for the request idata, with the heap rs and the queue q.
input_interrupt_cb(idata, rs, q, env) ==
    IF ~env.list THEN input_interrupt_cb_oom(idata, rs, q, NULL, NULL)
    ELSE
    LET r1 == FirstFreeRec(rs)
        scheduled == IF env.sched THEN r1 ELSE NULL
        buffer_copy == IF env.copy THEN r1 ELSE NULL
        rsA == IF scheduled = NULL /\ buffer_copy = NULL THEN rs
               ELSE [rs EXCEPT ![r1].st = IF env.sched THEN "live" ELSE "free",
                               ![r1].copy = IF env.copy THEN "live" ELSE "free"]
    IN  IF scheduled = NULL \/ buffer_copy = NULL
        THEN input_interrupt_cb_oom(idata, rsA, q, scheduled, buffer_copy)
        ELSE
        LET rsB == [rsA EXCEPT ![r1] =
                      [st |-> "live", copy |-> "live", hndl |-> idata.hndl,
                       endpoint |-> ClearDir(idata.tep), buffer |-> "copy",
                       ud |-> idata.ud]]
            qB == list_add(q, r1)
        IN  IF env.submit
            THEN [recs |-> rsB, queue |-> qB, cbs |-> completed_callback(idata, r1),
                  loop |-> idata, why |-> "ok"]
            ELSE
            LET r2 == FirstFreeRec(rsB)
                scheduled2 == IF env.sched2 THEN r2 ELSE NULL
            IN  IF scheduled2 = NULL
                THEN input_interrupt_cb_oom(idata, rsB, qB, NULL, NULL)
                ELSE [recs |-> [rsB EXCEPT ![r2] =
                                  [st |-> "live", copy |-> "free", hndl |-> idata.hndl,
                                   endpoint |-> idata.endpoint, buffer |-> "NULL",
                                   ud |-> idata.ud]],
                      queue |-> list_add(qB, r2),
                      cbs |-> completed_callback(idata, r1),
                      loop |-> input_interrupt_cb_error(idata), why |-> "resubmit"]

\* The mainloop callback enters libusb_handle_events_timeout_completed.
TickBegin ==
    /\ pc = "idle"
    /\ pc' = "events"
    /\ cbLog' = <<>>
    /\ last' = Last("tick", NULL, NULL, "events", {})
    /\ UNCHANGED <<hmem, conns, held, loops, recs, orphans, queue, hid, clm>>

\* Inside event processing, a transfer in flight completes and libusb calls
\* input_interrupt_cb with it.
Complete ==
    /\ pc = "events"
    /\ \E l \in LAddrs : \E env \in CompleteEnvs(recs) :
        /\ loops[l].xfer = "inflight"
        /\ LET r == input_interrupt_cb(loops[l], recs, queue, env)
           IN  /\ orphans + Cardinality(Orphaned(r.recs)) <= MaxOrphans
               /\ loops' = [loops EXCEPT ![l] = r.loop]
               /\ recs' = Collect(r.recs)
               /\ orphans' = orphans + Cardinality(Orphaned(r.recs))
               /\ queue' = r.queue
               /\ cbLog' = r.cbs
               /\ last' = Last("complete", NULL, loops[l].hndl, r.why, {})
    /\ UNCHANGED <<hmem, conns, held, pc, hid, clm>>

\* A mutation of the drain: the first of several queued records is passed over.
RECURSIVE drain_skips_first(_, _, _)
drain_skips_first(q, rs, log) ==
    IF q = <<>> THEN [recs |-> rs, cbs |-> log]
    ELSE LET item == Head(q)
             call == CbCall("drain", item, rs[item].hndl, rs[item].endpoint,
                            rs[item].buffer, rs[item].ud)
             rs1 == IF rs[item].buffer = "copy" THEN FreeCopy(rs, item) ELSE rs
         IN  drain_skips_first(Tail(q), FreeRecord(rs1, item),
                 IF log = <<>> /\ Len(q) > 1 THEN log ELSE Append(log, call))

\* The FOREACH_IN loop of sccd_usb_helper_mainloop over the items q still to
\* visit: idata->cb(...); free(idata->buffer); free(idata).
RECURSIVE drain(_, _, _)
drain(q, rs, log) ==
    IF q = <<>> THEN [recs |-> rs, cbs |-> log]
    ELSE LET item == Head(q)
             call == CbCall("drain", item, rs[item].hndl, rs[item].endpoint,
                            rs[item].buffer, rs[item].ud)
             rs1 == IF rs[item].buffer = "copy" THEN FreeCopy(rs, item) ELSE rs
         IN  drain(Tail(q), FreeRecord(rs1, item), Append(log, call))

\* A mutation of the end of the drain: the list is not cleared.
list_clear_forgotten(q) == q

\* list_clear(scheduled_interupts)
list_clear(q) == <<>>

\* Event processing returns and the mainloop callback runs to its end: the
\* drain of the queue.
EventsDone ==
    /\ pc = "events"
    /\ pc' = "idle"
    /\ IF Len(queue) > 0
       THEN LET r == drain(queue, recs, <<>>)
            IN  /\ recs' = Collect(r.recs)
                /\ orphans' = orphans + Cardinality(Orphaned(r.recs))
                /\ cbLog' = r.cbs
                /\ queue' = list_clear(queue)
       ELSE /\ cbLog' = <<>>
            /\ UNCHANGED <<recs, orphans, queue>>
    /\ last' = Last("drain", NULL, NULL, "drain", {})
    /\ UNCHANGED <<hmem, conns, held, loops, hid, clm>>

\* The calls of the while loop of sccd_hidapi_dev_interupt_cb when
\* hid_read_timeout finds n chunks before it returns no data.
RECURSIVE hidapi_reads(_, _)
hidapi_reads(idata, n) ==
    IF n = 0 THEN <<>>
    ELSE <<CbCall("hidapi", NULL, idata.hndl, idata.endpoint, "buffer", idata.ud)>>
         \o hidapi_reads(idata, n - 1)

\* sccd_hidapi_dev_interupt_cb: a pending one-shot callback of a
\* blocking-read loop fires (and is pending no more), reads what is there,
\* then schedules itself again.
HidapiCb ==
    /\ pc = "idle"
    /\ \E l \in LAddrs, n \in 0..MaxChunks :
        /\ loops[l].sched > 0
        /\ cbLog' = hidapi_reads(loops[l], n)
        /\ loops' = [loops EXCEPT ![l] = schedule([loops[l] EXCEPT !.sched = @ - 1])]
        /\ last' = Last("poll", loops[l].length, loops[l].hndl, "hidapi",
                        IF hmem[loops[l].hndl].st = "live" THEN {} ELSE {"use_after_free"})
    /\ UNCHANGED <<hmem, conns, held, recs, orphans, queue, pc, hid, clm>>

-----------------------------------------------------------------------------
\* claim_interfaces_by

\* The (class, subclass, protocol) the caller asks for.
Ask == [cls |-> 3, sub |-> 0, proto |-> 0]

\* Alternate settings a descriptor can hold: the interface class, subclass
\* and protocol, and whether libusb_claim_interface succeeds when called for it.
AltSettings ==
    {[cls |-> 3, sub |-> 0, proto |-> 0, claim |-> TRUE],
     [cls |-> 3, sub |-> 0, proto |-> 0, claim |-> FALSE],
     [cls |-> 8, sub |-> 0, proto |-> 0, claim |-> TRUE],
     [cls |-> 3, sub |-> 1, proto |-> 0, claim |-> TRUE],
     [cls |-> 3, sub |-> 0, proto |-> 2, claim |-> TRUE]}

SeqsUpTo(S, n) == UNION {[1..k -> S] : k \in 0..n}
Interfaces == SeqsUpTo(AltSettings, MaxAlt)     \* an interface: its altsetting[]
Configs == SeqsUpTo(Interfaces, MaxIfc)         \* a configuration: its interface[]
Devices == SeqsUpTo(Configs, MaxCfg)            \* a device: its configurations

\* The test of the innermost loop on one alternate setting.
alt_matches(alt, cls, subclass, protocol) ==
    alt.cls = cls /\ alt.sub = subclass /\ alt.proto = protocol

\* A mutation of the count: a failed claim is counted too.
claim_one_counts_failures(alt, cls, subclass, protocol) ==
    IF alt_matches(alt, cls, subclass, protocol) THEN 1 ELSE 0

\* The body of the innermost loop: what one alternate setting adds to count.
claim_one(alt, cls, subclass, protocol) ==
    IF alt_matches(alt, cls, subclass, protocol)
    THEN (IF alt.claim THEN 1 ELSE 0)
    ELSE 0

\* for (m = 0; m < ifc->num_altsetting; m++), from position m on
RECURSIVE claim_alts(_, _, _, _, _)
claim_alts(ifc, m, cls, subclass, protocol) ==
    IF m > Len(ifc) THEN 0
    ELSE claim_one(ifc[m], cls, subclass, protocol)
         + claim_alts(ifc, m + 1, cls, subclass, protocol)

\* for (n = 0; n < desc->bNumInterfaces; n++), from position n on
RECURSIVE claim_ifcs(_, _, _, _, _)
claim_ifcs(desc, n, cls, subclass, protocol) ==
    IF n > Len(desc) THEN 0
    ELSE claim_alts(desc[n], 1, cls, subclass, protocol)
         + claim_ifcs(desc, n + 1, cls, subclass, protocol)

\* What the call returns when libusb_get_config_descriptor fails with an
\* error other than LIBUSB_ERROR_NOT_FOUND.
descriptor_error_return(count) == 0

\* for (i = 0; ; i++), from configuration i on with count claims made so far.
\* errAt is the configuration whose descriptor cannot be read (0: none);
\* past the last configuration the read reports LIBUSB_ERROR_NOT_FOUND.
RECURSIVE claim_configs(_, _, _, _, _, _, _)
claim_configs(dev, i, errAt, count, cls, subclass, protocol) ==
    IF i = errAt THEN descriptor_error_return(count)
    ELSE IF i > Len(dev) THEN count
    ELSE claim_configs(dev, i + 1, errAt,
                       count + claim_ifcs(dev[i], 1, cls, subclass, protocol),
                       cls, subclass, protocol)

\* sccd_usb_dev_claim_interfaces_by on a handle of subsystem sys.
sccd_usb_dev_claim_interfaces_by(sys, dev, errAt, cls, subclass, protocol) ==
    IF sys = "HIDAPI" THEN 1
    ELSE IF sys # "USB" THEN 0
    ELSE claim_configs(dev, 1, errAt, 0, cls, subclass, protocol)

ClmIdle == [sys |-> "USB", dev |-> <<>>, errAt |-> 0, done |-> FALSE, ret |-> 0]

-----------------------------------------------------------------------------
\* Specifications

\* Nothing opened, nothing started.
Quiet ==
    /\ hmem = [a \in HAddrs |-> FreeHandle]
    /\ conns = [c \in CAddrs |-> "closed"]
    /\ held = {}
    /\ loops = [l \in LAddrs |-> FreeLoop]
    /\ recs = [r \in RAddrs |-> FreeRec]
    /\ orphans = 0
    /\ queue = <<>>
    /\ pc = "idle"
    /\ cbLog = <<>>
    /\ last = Last("init", NULL, NULL, "init", {})

\* The handle at address a as open leaves it: opened on the event-driven
\* backend, opened on the blocking-read backend, or returned by the
\* event-driven open after libusb_open failed (released, yet held).
OpenedKinds == {"USB", "HIDAPI", "dangling"}
Opened(kind, a) ==
    IF kind = "dangling" THEN FreeHandle
    ELSE [st |-> "live", sys |-> kind, conn |-> a,
          idx |-> IF kind = "HIDAPI" THEN hidapi_idx(CHOOSE m \in Markers : ~m.found)
                  ELSE Unset]

\* The scheduler, with the handles the caller has opened.
Init ==
    /\ \E kind \in [HAddrs -> OpenedKinds] :
        /\ hmem = [a \in HAddrs |-> Opened(kind[a], a)]
        /\ conns = [c \in CAddrs |-> IF kind[c] = "dangling" THEN "closed" ELSE "open"]
    /\ held = HAddrs
    /\ loops = [l \in LAddrs |-> FreeLoop]
    /\ recs = [r \in RAddrs |-> FreeRec]
    /\ orphans = 0
    /\ queue = <<>>
    /\ pc = "idle"
    /\ cbLog = <<>>
    /\ last = Last("init", NULL, NULL, "init", {})
    /\ hid = HidIdle
    /\ clm = ClmIdle

Next ==
    \/ StartReadLoop
    \/ TickBegin
    \/ Complete
    \/ EventsDone
    \/ HidapiCb
    \/ Close

Spec == Init /\ [][Next]_vars

\* Opening and closing handles.
InitHandles == Quiet /\ hid = HidIdle /\ clm = ClmIdle
NextHandles == Open \/ Close
SpecHandles == InitHandles /\ [][NextHandles]_vars

\* One hid_request call on a handle, for every input and every outcome of the
\* allocation and of the two transfers.
InitHid ==
    /\ Quiet
    /\ clm = ClmIdle
    /\ \E sys \in HidSubsystems, marker \in Markers, idx \in HidIndexes,
          len \in HidLengths, env \in HidEnvs :
        hid = [HidIdle EXCEPT !.h = HidHandle(sys, marker), !.idx = idx,
                              !.len = len, !.env = env]

HidRequest ==
    /\ ~hid.done
    /\ hid' = [hid EXCEPT !.done = TRUE,
                 !.out = sccd_usb_dev_hid_request(hid.h, hid.idx, hid.len, hid.env)]
    /\ UNCHANGED <<hmem, conns, held, loops, recs, orphans, queue, pc, cbLog, last, clm>>

SpecHid == InitHid /\ [][HidRequest]_vars

\* One claim_interfaces_by call on a handle, for every layout of the device.
InitClaim ==
    /\ Quiet
    /\ hid = HidIdle
    /\ \E sys \in HidSubsystems, dev \in Devices :
       \E errAt \in 0..(Len(dev) + 1) :
        clm = [ClmIdle EXCEPT !.sys = sys, !.dev = dev, !.errAt = errAt]

ClaimInterfaces ==
    /\ ~clm.done
    /\ clm' = [clm EXCEPT !.done = TRUE,
                 !.ret = sccd_usb_dev_claim_interfaces_by(clm.sys, clm.dev, clm.errAt,
                                                          Ask.cls, Ask.sub, Ask.proto)]
    /\ UNCHANGED <<hmem, conns, held, loops, recs, orphans, queue, pc, cbLog, last, hid>>

SpecClaim == InitClaim /\ [][ClaimInterfaces]_vars

\* The scheduler under a fair mainloop with no failure in the completion
\* path: every allocation of the completion callback and every resubmission
\* succeeds; ticks keep occurring and event processing returns.
CompleteOk == Complete /\ last'.why = "ok"

NextLive ==
    \/ StartReadLoop
    \/ TickBegin
    \/ CompleteOk
    \/ EventsDone
    \/ HidapiCb
    \/ Close

SpecLive ==
    /\ Init
    /\ [][NextLive]_vars
    /\ WF_pc(TickBegin)
    /\ WF_pc(EventsDone)

-----------------------------------------------------------------------------
\* Properties

\* The step that ends a tick: event processing has returned and the drain runs.
DrainStep == pc = "events" /\ pc' = "idle"

\* The callback invocation that delivers the queued record r, as the drain
\* makes it.
Delivery(r) ==
    CbCall("drain", r, recs[r].hndl, recs[r].endpoint, recs[r].buffer, recs[r].ud)

\* C1: each run of the drain step invokes the user callback once for every
\* record that was in the queue, in the order the records were appended
\* (across all handles), and leaves the queue empty.
C1_DrainDeliversAllInOrder ==
    [][DrainStep =>
        /\ queue' = <<>>
        /\ Len(cbLog') = Len(queue)
        /\ \A i \in 1..Len(queue) : cbLog'[i] = Delivery(queue[i])]_vars

\* A drain has just delivered three records, of two different handles, and
\* the queue is empty.
C1_Witness ==
    /\ last.op = "drain"
    /\ Len(cbLog) = 3
    /\ cbLog[1].hndl # cbLog[2].hndl
    /\ cbLog[1].rec # cbLog[2].rec
    /\ queue = <<>>

InQueue(r, q) == \E i \in 1..Len(q) : q[i] = r
TimesDelivered(r, log) == Cardinality({i \in 1..Len(log) : log[i].rec = r})

\* The step is the allocation-failure teardown of handle h.
TeardownOf(h) ==
    /\ last'.op = "complete"
    /\ last'.why = "oom"
    /\ Len(cbLog') = 1
    /\ cbLog'[1].hndl = h

\* C2: every delivery record in the queue is passed to the user callback
\* exactly once: a record leaves the queue only by being delivered, once, or
\* by the allocation-failure teardown of its own handle; a delivered record
\* is gone from the queue, and nothing is delivered that was not queued.
C2_DeliveredExactlyOnce ==
    /\ [](\A i, j \in 1..Len(queue) : (i # j) => (queue[i] # queue[j]))
    /\ [][\A r \in RAddrs :
            /\ TimesDelivered(r, cbLog') <= 1
            /\ (TimesDelivered(r, cbLog') = 1) => (InQueue(r, queue) /\ ~InQueue(r, queue'))
            /\ (InQueue(r, queue) /\ ~InQueue(r, queue')) =>
                  \/ TimesDelivered(r, cbLog') = 1
                  \/ TeardownOf(recs[r].hndl)
            /\ (InQueue(r, queue) /\ InQueue(r, queue')) => (recs'[r] = recs[r])]_vars

\* A drain has just delivered the bytes of a completion and the null buffer
\* queued after its resubmission failed.
C2_Witness ==
    /\ last.op = "drain"
    /\ \E i, j \in 1..Len(cbLog) :
        /\ i < j
        /\ cbLog[i].buffer = "copy"
        /\ cbLog[j].buffer = "NULL"
        /\ cbLog[i].hndl = cbLog[j].hndl

\* C3: while the event-processing call of the tick is running, the user
\* callback is not invoked, except once, with a null buffer, on the
\* allocation-failure path of the completion callback; the callbacks that
\* deliver queued records are made by the drain, after event processing has
\* returned.
C3_NoCallbackInsideEventProcessing ==
    /\ (pc = "events" /\ cbLog # <<>>) =>
          /\ last.op = "complete"
          /\ last.why = "oom"
          /\ Len(cbLog) = 1
          /\ cbLog[1].buffer = "NULL"
          /\ cbLog[1].rec = NULL
    /\ \A i \in 1..Len(cbLog) :
          (cbLog[i].rec # NULL) => (pc = "idle" /\ last.op = "drain")

\* Event processing is still running, a completion has queued its record and
\* resubmitted, and no callback was made.
C3_Witness ==
    /\ pc = "events"
    /\ last.op = "complete"
    /\ last.why = "ok"
    /\ queue # <<>>
    /\ cbLog = <<>>

\* A read loop is armed in the slot: the request record and its buffer are
\* allocated and either a transfer is in flight or one one-shot callback is
\* scheduled.
Armed(loop, h) ==
    /\ loop.idata = "live"
    /\ loop.buffer = "live"
    /\ loop.hndl = h
    /\ (loop.xfer = "inflight") # (loop.sched = 1)
    /\ loop.xfer \in {"inflight", "none"}

\* C4: start_read_loop returns true with a read loop armed in a slot that was
\* free, or returns false; when it returns false every request slot is as it
\* was before the call (no request record, buffer, transfer or scheduled
\* callback of the call remains); the call never invokes the user callback,
\* and never touches the queue.
C4_StartReadLoopAllOrNothing ==
    [][(last'.op = "start") =>
        /\ cbLog' = <<>>
        /\ queue' = queue
        /\ recs' = recs
        /\ last'.ret \in {CBool(FALSE), CBool(TRUE)}
        /\ (last'.ret = CBool(FALSE)) => (loops' = loops)
        /\ (last'.ret = CBool(TRUE)) =>
              \E l \in LAddrs :
                /\ loops[l] = FreeLoop
                /\ Armed(loops'[l], last'.h)
                /\ \A k \in LAddrs \ {l} : loops'[k] = loops[k]]_vars

\* start_read_loop has just returned false because the submission failed,
\* with another loop armed.
C4_Witness ==
    /\ last.op = "start"
    /\ last.ret = CBool(FALSE)
    /\ last.why = "submit"
    /\ \E l \in LAddrs : loops[l].xfer = "inflight"

\* C5: open_by_path returns null on every failure path; a non-null return
\* value designates a live, initialised handle that owns an open connection.
C5_OpenReturnsNullOrLiveHandle ==
    (last.op = "open") =>
        /\ (last.why # "ok") => (last.ret = NULL)
        /\ (last.ret # NULL) =>
              /\ hmem[last.ret].st = "live"
              /\ hmem[last.ret].sys \in {"USB", "HIDAPI"}
              /\ hmem[last.ret].conn \in CAddrs
              /\ conns[hmem[last.ret].conn] = "open"

\* C6: hid_request called with a negative length never allocates an output
\* buffer and never frees the caller's buffer.
C6_NegativeLengthKeepsCallerBuffer ==
    (hid.done /\ hid.len < 0) =>
        /\ ~hid.out.allocated
        /\ "data" \notin hid.out.freed
        /\ hid.out.ret \in {"NULL", "data"}

\* A call with a negative length has failed after issuing a transfer.
C6_Witness ==
    /\ hid.done
    /\ hid.len < 0
    /\ hid.out.ret = "NULL"
    /\ hid.out.io # <<>>

\* C7: hid_request called with a non-negative length either returns a newly
\* allocated buffer of exactly that length, or returns null with every buffer
\* it allocated already freed.
C7_NonNegativeLengthReturnsOrFrees ==
    (hid.done /\ hid.len >= 0) =>
        \/ /\ hid.out.ret = "new"
           /\ hid.out.allocated
           /\ hid.out.size = hid.len
           /\ hid.out.freed = {}
        \/ /\ hid.out.ret = "NULL"
           /\ hid.out.allocated => ("new" \in hid.out.freed)

\* C8: on a blocking-read handle, a request index different from the index
\* recorded at open time (the unset value -1 included) makes hid_request
\* return null without issuing the send or the get feature report.
C8_IndexMismatchNoIo ==
    (hid.done /\ hid.h.sys = "HIDAPI" /\ hid.idx # hid.h.idx) =>
        /\ hid.out.ret = "NULL"
        /\ hid.out.io = <<>>

\* hid_request(handle, idx=3, data, length=-8) has returned on a handle opened
\* with recorded index 5.
C8_Witness ==
    /\ hid.done
    /\ hid.h.sys = "HIDAPI"
    /\ hid.h.idx = 5
    /\ hid.idx = 3
    /\ hid.len = -8

\* C9: each close releases exactly one native connection, the one owned by
\* the handle, and the handle memory once; nothing is released twice.
C9_CloseReleasesOnce ==
    (last.op = "close") =>
        /\ last.fault = {}
        /\ last.ret \in CAddrs

\* The alternate settings of the configurations 1..upto of dev that match the
\* asked triple exactly and whose claim call succeeds.
Claimable(dev, upto) ==
    {p \in (1..MaxCfg) \X (1..MaxIfc) \X (1..MaxAlt) :
        /\ p[1] <= upto
        /\ p[1] <= Len(dev)
        /\ p[2] <= Len(dev[p[1]])
        /\ p[3] <= Len(dev[p[1]][p[2]])
        /\ dev[p[1]][p[2]][p[3]].cls = Ask.cls
        /\ dev[p[1]][p[2]][p[3]].sub = Ask.sub
        /\ dev[p[1]][p[2]][p[3]].proto = Ask.proto
        /\ dev[p[1]][p[2]][p[3]].claim}

\* The configurations whose descriptor the call reads before it ends.
ConfigsWalked == IF clm.errAt = 0 THEN Len(clm.dev) ELSE clm.errAt - 1

\* C10 as stated: on an event-driven handle claim_interfaces_by returns the
\* number of alternate settings that match exactly and whose claim call
\* succeeded during the call.
C10_CountAsStated ==
    (clm.done /\ clm.sys = "USB") =>
        clm.ret = Cardinality(Claimable(clm.dev, ConfigsWalked))

\* C10 amended: it returns that number when every configuration descriptor
\* can be read, and 0 when reading one fails, whatever was claimed before.
C10_CountUnlessDescriptorError ==
    (clm.done /\ clm.sys = "USB") =>
        IF clm.errAt = 0
        THEN clm.ret = Cardinality(Claimable(clm.dev, Len(clm.dev)))
        ELSE clm.ret = 0

\* A call has returned 1 for a device with two configurations, one matching
\* setting claimed, one matching setting whose claim failed.
C10_Witness ==
    /\ clm.done
    /\ clm.sys = "USB"
    /\ clm.errAt = 0
    /\ Len(clm.dev) = 2
    /\ clm.ret = 1
    /\ \E i \in 1..2 : \E n \in 1..Len(clm.dev[i]) : \E m \in 1..Len(clm.dev[i][n]) :
        /\ alt_matches(clm.dev[i][n][m], Ask.cls, Ask.sub, Ask.proto)
        /\ ~clm.dev[i][n][m].claim

\* The step is an allocation failure inside the completion callback.
OomStep == last'.op = "complete" /\ last'.why = "oom"

\* C11: when an allocation fails inside the completion callback of a loop of
\* handle H, the queue afterwards is the queue before without the records of
\* H, in the same order and with the kept records unchanged; none of the
\* removed records is delivered; the user callback of the failing loop is
\* invoked exactly once, from the completion callback, with a null buffer.
C11_TeardownDiscardsOnlyOwnRecords ==
    [][OomStep =>
        \E l \in LAddrs :
            /\ loops[l].xfer = "inflight"
            /\ loops'[l] = FreeLoop
            /\ queue' = SelectSeq(queue, LAMBDA r : recs[r].hndl # loops[l].hndl)
            /\ \A i \in 1..Len(queue') : recs'[queue'[i]] = recs[queue'[i]]
            /\ Len(cbLog') = 1
            /\ cbLog'[1].ctx = "completion"
            /\ cbLog'[1].rec = NULL
            /\ cbLog'[1].hndl = loops[l].hndl
            /\ cbLog'[1].ud = loops[l].ud
            /\ cbLog'[1].buffer = "NULL"]_vars

\* An allocation failure has just torn a handle down while a record of
\* another handle stays queued, and byte copies of discarded records exist.
C11_Witness ==
    /\ last.op = "complete"
    /\ last.why = "oom"
    /\ Len(cbLog) = 1
    /\ queue # <<>>
    /\ \A i \in 1..Len(queue) : recs[queue[i]].hndl # cbLog[1].hndl
    /\ orphans >= 2

\* C12: once a handle is closed (no longer held), no read is issued on it,
\* no completion is processed for it, and the user callback is not invoked
\* with it.
C12_ClosedHandleIsQuiet ==
    /\ \A i \in 1..Len(cbLog) : cbLog[i].hndl \in held
    /\ (last.op \in {"poll", "complete"}) => (last.h \in held)

\* The step is a completion whose resubmission failed, with no allocation failing.
ResubmitFailStep == last'.op = "complete" /\ last'.why = "resubmit"

\* C13: when the resubmission fails inside the completion callback and no
\* allocation fails, the record holding the received bytes and, after it, a
\* record with a null buffer are appended to the queue (both for the loop's
\* handle and userdata), no callback is made by the step, and nothing of the
\* read loop remains: no request, no buffer, no transfer in flight, so that no
\* later completion can occur for it.
C13_ResubmitFailureQueuesNullAndEndsLoop ==
    [][ResubmitFailStep =>
        \E l \in LAddrs :
            /\ loops[l].xfer = "inflight"
            /\ loops'[l] = FreeLoop
            /\ \A k \in LAddrs \ {l} : loops'[k] = loops[k]
            /\ Len(queue') = Len(queue) + 2
            /\ SubSeq(queue', 1, Len(queue)) = queue
            /\ LET r1 == queue'[Len(queue) + 1]
                   r2 == queue'[Len(queue) + 2]
               IN  /\ r1 # r2
                   /\ ~InQueue(r1, queue) /\ ~InQueue(r2, queue)
                   /\ recs'[r1].buffer = "copy"
                   /\ recs'[r1].hndl = loops[l].hndl
                   /\ recs'[r1].ud = loops[l].ud
                   /\ recs'[r2].buffer = "NULL"
                   /\ recs'[r2].hndl = loops[l].hndl
                   /\ recs'[r2].ud = loops[l].ud
            /\ cbLog' = <<>>]_vars

\* A resubmission has just failed: the null-buffer record is last in the
\* queue, behind the bytes, and another read loop is still in flight.
C13_Witness ==
    /\ last.op = "complete"
    /\ last.why = "resubmit"
    /\ Len(queue) >= 2
    /\ recs[queue[Len(queue)]].buffer = "NULL"
    /\ recs[queue[Len(queue) - 1]].buffer = "copy"
    /\ \E l \in LAddrs : loops[l].xfer = "inflight"

\* C14 as stated: after any invocation of the completion callback the queue
\* length has grown by at most one.
C14_AtMostOneRecordPerCompletion ==
    [][(last'.op = "complete") => (Len(queue') <= Len(queue) + 1)]_vars

\* C14 amended: a completion appends exactly one record when the resubmission
\* succeeds, exactly two (the bytes, then a null buffer) when the resubmission
\* fails, and none when an allocation fails.
C14_OneRecordOrTwoOnResubmitFailure ==
    [][(last'.op = "complete") =>
        /\ (last'.why = "ok") => (Len(queue') = Len(queue) + 1)
        /\ (last'.why = "resubmit") => (Len(queue') = Len(queue) + 2)
        /\ (last'.why = "oom") => (Len(queue') <= Len(queue))
        /\ last'.why \in {"ok", "resubmit", "oom"}]_vars

\* Two completions of one read loop have queued one record each within one
\* event-processing call.
C14_Witness ==
    /\ pc = "events"
    /\ last.op = "complete"
    /\ last.why = "ok"
    /\ Len(queue) = 2
    /\ recs[queue[1]].hndl = recs[queue[2]].hndl
    /\ recs[queue[1]].ud = recs[queue[2]].ud
    /\ Cardinality({l \in LAddrs : loops[l].xfer = "inflight"}) = 1

\* C15: after an allocation failure in the completion path has produced the
\* null-buffer callback for handle H, polling of H has ended: no read loop of
\* H, on any endpoint, is left with a transfer in flight or a callback
\* scheduled, so that no later completion or callback can occur for H unless
\* a new read loop is started.
C15_TeardownEndsPollingOfHandle ==
    [][OomStep =>
        \A l \in LAddrs :
            (loops'[l].hndl = last'.h) =>
                (loops'[l].xfer # "inflight" /\ loops'[l].sched = 0)]_vars

\* The step recorded in l was a drain and its callbacks log delivered record
\* r once, with the copy of the bytes.
DeliveredCopyIn(r, l, log) ==
    /\ l.op = "drain"
    /\ TimesDelivered(r, log) = 1
    /\ \A i \in 1..Len(log) : (log[i].rec = r) => (log[i].buffer = "copy")

\* The drain has just delivered record r, once, with the copy of the bytes.
DeliveredCopy(r) == DeliveredCopyIn(r, last, cbLog)

\* C16: under a fair mainloop and with no allocation or resubmission failure,
\* every completion of an active event-driven read loop queues one record
\* holding a copy of the bytes and leaves the loop armed with its transfer in
\* flight; every queued record is eventually delivered by exactly one
\* callback carrying the copy, by the next drain.
C16_CompletionsEventuallyDelivered ==
    /\ [][(last'.op = "complete") =>
            \E l \in LAddrs :
                /\ loops[l].xfer = "inflight"
                /\ loops' = loops
                /\ Len(queue') = Len(queue) + 1
                /\ recs'[queue'[Len(queue')]].buffer = "copy"
                /\ recs'[queue'[Len(queue')]].hndl = loops[l].hndl
                /\ recs'[queue'[Len(queue')]].ud = loops[l].ud]_vars
    /\ [][DrainStep => \A i \in 1..Len(queue) : DeliveredCopyIn(queue[i], last', cbLog')]_vars
    /\ \A r \in RAddrs : InQueue(r, queue) ~> DeliveredCopy(r)

\* A drain has just delivered the bytes of a completion and the loop they
\* came from is still armed, its transfer in flight.
C16_Witness ==
    /\ last.op = "drain"
    /\ Len(cbLog) >= 1
    /\ cbLog[1].buffer = "copy"
    /\ \E l \in LAddrs :
        /\ loops[l].xfer = "inflight"
        /\ loops[l].hndl = cbLog[1].hndl
        /\ loops[l].ud = cbLog[1].ud

\* The slot holds a read loop of the blocking-read backend.
BlockingReadLoop(loop) == loop.idata = "live" /\ loop.xfer = "none"

\* C17: every read loop of the blocking-read backend has exactly one
\* one-shot callback pending at every tick boundary (whenever the mainloop is
\* between steps); a firing invokes the user callback directly once per chunk
\* read, with the request's buffer, and leaves exactly one callback pending
\* for the loop again, never zero, never more than one.
C17_OnePendingPollPerLoop ==
    /\ [](\A l \in LAddrs : BlockingReadLoop(loops[l]) => (loops[l].sched = 1))
    /\ [](\A l \in LAddrs : loops[l].sched \in {0, 1})
    /\ [][(last'.op = "poll") =>
            \E l \in LAddrs :
                /\ BlockingReadLoop(loops[l])
                /\ loops[l].sched = 1
                /\ loops'[l].sched = 1
                /\ loops' = loops
                /\ Len(cbLog') <= MaxChunks
                /\ \A i \in 1..Len(cbLog') :
                      /\ cbLog'[i].ctx = "hidapi"
                      /\ cbLog'[i].buffer = "buffer"
                      /\ cbLog'[i].hndl = loops[l].hndl
                      /\ cbLog'[i].ud = loops[l].ud
                /\ queue' = queue]_vars

\* A poll has just read two chunks and delivered both; its loop has one
\* callback pending again, as has a second blocking-read loop.
C17_Witness ==
    /\ last.op = "poll"
    /\ Len(cbLog) = 2
    /\ Cardinality({l \in LAddrs : BlockingReadLoop(loops[l]) /\ loops[l].sched = 1}) = 2

\* The endpoint id a callback of the read loop started with userdata ud is to
\* receive: the endpoint passed to start_read_loop with that userdata, its
\* direction bit cleared.
RoutedEndpoint(ud) == {ClearDir(a.endpoint) : a \in {b \in StartArgs : b.ud = ud}}

\* C18: every user callback invocation of a read loop (from the drain, from
\* the completion callback on allocation failure, or direct on the
\* blocking-read backend) receives the userdata the loop was started with and
\* the endpoint passed to start_read_loop with its direction bit cleared.
C18_CallbacksCarryRoutedEndpoint ==
    \A i \in 1..Len(cbLog) : cbLog[i].endpoint \in RoutedEndpoint(cbLog[i].ud)

\* C19: every delivery record and every byte copy allocated by the
\* completion callback is released exactly once: no byte copy is left
\* allocated with no record pointing to it, every allocated record is in the
\* queue, and once the queue is empty no record and no byte copy remains
\* allocated.
C19_RecordsAndCopiesReleased ==
    /\ orphans = 0
    /\ \A r \in RAddrs : (recs[r] # FreeRec) => InQueue(r, queue)
    /\ (queue = <<>>) => (recs = [r \in RAddrs |-> FreeRec])

\* C20: every pending request carries the requested length (the transfer in
\* flight of an event-driven loop, the request record of a blocking-read
\* loop), and every read of the blocking-read backend is issued with that
\* length; no read uses a length that was never assigned.
C20_RequestCarriesLength ==
    /\ \A l \in LAddrs : (loops[l].xfer = "inflight") => (loops[l].tlen \in Lengths)
    /\ \A l \in LAddrs : BlockingReadLoop(loops[l]) => (loops[l].length \in Lengths)
    /\ (last.op = "poll") => (last.ret \in Lengths)

====
